---------------------------- MODULE Spec2Model ----------------------------
(***************************************************************************)
(* Model of AerialWareQGISIntegration.py: the DummyWidget that lets the    *)
(* user pick a raster layer of the QGIS project, loads the AerialWare      *)
(* module (default location, memory file AerialWarePath.txt, path prompt), *)
(* shows the AerialWare widget and, on its done signal, turns the two      *)
(* computed paths into vector layers of the project.                       *)
(*                                                                         *)
(* The code is single threaded.  __init__ is cut into steps at the calls   *)
(* it makes and at its modal dialogs (QInputDialog.getText / getItem),     *)
(* where the user's answer enters; onEnd is one step, run by the done      *)
(* signal from the host's event loop.                                      *)
(***************************************************************************)
EXTENDS Integers, Sequences, FiniteSets, TLC

----------------------------------------------------------------------------
(* Bounds of the model *)

\* largest number of map layers in the project
MaxLayers == 2
\* largest number of segments in a path returned by the tool
MaxSegs == 2
\* largest number of paths the user types into the path prompt
MaxPrompts == 2
\* largest number of times the tool emits its done signal
MaxDone == 2

----------------------------------------------------------------------------
(* Value spaces *)

\* layer names the project may use (QGIS does not force them to differ)
Names == {"a", "b"}
\* QgsMapLayerType values the project may hold
LayerTypes == {"RasterLayer", "VectorLayer"}
\* what importing <path>/AerialWare.py does, by path
Paths == {"okdir", "okdir2", "nofile", "syntaxerr", "deperr", "nospec"}
\* end points of segments and flight heights returned by the tool
Pts == {0, 1}
Heights == {10, 20}

\* exception raised (or "none") when AerialWare.py is loaded from path p:
\* "nospec" fails while the spec/module object is made (lines 116-117),
\* the others while the module body is executed (line 119)
LoadOutcome(p) ==
    CASE p = "okdir"     -> "none"
      [] p = "okdir2"    -> "none"
      [] p = "nofile"    -> "FileNotFoundError"
      [] p = "syntaxerr" -> "SyntaxError"
      [] p = "deperr"    -> "ImportError"
      [] p = "nospec"    -> "AttributeError"
      [] OTHER           -> "FileNotFoundError"

Loads(p) == LoadOutcome(p) = "none"

\* the memory file: absent, or present with the text it holds, kept as the
\* sequence of the strings written to it (<< >> is an empty file)
NoFile == [exists |-> FALSE, text |-> << >>]
FileWith(t) == [exists |-> TRUE, text |-> t]

\* first line of a file's text, as readline() returns it
FirstLine(t) == IF t = << >> THEN "" ELSE t[1]

SegLists(n) == UNION {[1..k -> Pts \X Pts] : k \in 0..n}

\* a path of one segment
OneSeg == << <<0, 1>> >>
\* the six metadata getters of the tool (lines 169-176)
ToolMeta ==
    [areaH |-> 30, areaW |-> 40, ratio |-> 5, resH |-> 600, resW |-> 800,
     focal |-> 35]
ToolResult(m, h, ht) == [meridians |-> m, horizontals |-> h, height |-> ht]
\* a few results, among them an empty path
SmallResults ==
    { ToolResult(<< <<0, 1>>, <<1, 0>> >>, OneSeg, 10),
      ToolResult(<< >>, OneSeg, 20) }
\* every path up to MaxSegs segments on one side, a one-segment path on the other
MakeResults ==
    { ToolResult(m, OneSeg, ht) : m \in SegLists(MaxSegs), ht \in Heights }
    \cup { ToolResult(OneSeg, h, ht) : h \in SegLists(MaxSegs), ht \in Heights }

----------------------------------------------------------------------------
(* State *)

VARIABLES
    \* the environment, fixed during a run
    layers,        \* project.mapLayers(), in key order: records [type, name]
    defaultOk,     \* whether "from AerialWare import AerialWare" succeeds
    coreNames,     \* whether QgsPoint and QgsFields are bound in the globals
    toolResult,    \* what the tool's getters return once the user is done
    hostFail,      \* the host call of makeLayer that raises, if any
    memFile0,      \* AerialWarePath.txt before the run
    \* the program
    pc,            \* position of __init__ / the event loop
    excRaised,     \* exception that left __init__ or onEnd, or "none"
    layersList, layersDict,
    msgBoxes,      \* number of QMessageBox.exec_() calls
    onStartRet,    \* "notcalled", "running", "True", "False"
    memAttempt,    \* memory-file attempt: "none", "failed", "ok"
    memFile,       \* AerialWarePath.txt now
    fileState,     \* the handle of line 83: "unopened", "open", "closed"
    sysModules,    \* sys.modules["AerialWare"]: "absent", "default",
                   \* "partial" (registered, execution failed), "loaded"
    prompts,       \* number of QInputDialog.getText calls
    firstAnswer,   \* answer to the first prompt: "none", "cancel" or a path
    path,          \* the local variable path of onStart
    lastImport,    \* the last call of importAerialWare and how it ended
    selShown,      \* number of QInputDialog.getItem calls
    offered,       \* the list given to getItem
    accepted,      \* the name getItem returned with ok, or "none"
    aw,            \* the tool widget: "none", "shown", "closed", "deleted"
    awImage,       \* index of the layer whose preview it was given, 0 if none
    doneConnected, \* aw.done is connected to onEnd
    selfDel,       \* deleteLater of the DummyWidget: "no", "pending", "deleted"
    awDel,         \* deleteLater of the tool widget
    onEndRuns,     \* number of onEnd executions
    hostLog,       \* host calls made by makeLayer: <<layer name, call>>
    projectLayers  \* the layers added by project.addMapLayer

envVars == <<layers, defaultOk, coreNames, toolResult, hostFail, memFile0>>
initVars == <<layersList, layersDict, msgBoxes>>
loadVars == <<onStartRet, memAttempt, memFile, fileState, sysModules, prompts,
              firstAnswer, path, lastImport>>
selVars == <<selShown, offered, accepted>>
toolVars == <<aw, awImage, doneConnected, awDel>>
endVars == <<onEndRuns, hostLog, projectLayers>>
vars == <<envVars, pc, excRaised, initVars, loadVars, selVars, toolVars,
          selfDel, endVars>>

NoHostFail == [layer |-> "none", call |-> 0]
NoImport == [called |-> FALSE, path |-> "", ret |-> FALSE, raised |-> FALSE]

LayerSeqs(n) ==
    UNION {[1..k -> [type : LayerTypes, name : Names]] : k \in 0..n}

----------------------------------------------------------------------------
(* __init__, lines 33-50: the raster layers of the project *)

\* d with d[k] = v (a Python dict assignment)
DictPut(d, k, v) == [x \in DOMAIN d \cup {k} |-> IF x = k THEN v ELSE d[x]]

\* line 47 without its type test
IsParsedAnyType(layer) == TRUE

\* line 47: the layers that are parsed into the list
IsParsed(layer) == layer.type = "RasterLayer"

\* lines 45-50: the loop over the layers from index i on, with the list and
\* the dictionary built so far; gives <<layersList, layersDict>>
RECURSIVE ParseLayers(_, _, _, _)
ParseLayers(ls, i, lst, dict) ==
    IF i > Len(ls) THEN <<lst, dict>>
    ELSE IF ~IsParsed(ls[i]) THEN ParseLayers(ls, i + 1, lst, dict)
    ELSE ParseLayers(ls, i + 1, Append(lst, ls[i].name),
                     DictPut(dict, ls[i].name, i))

\* line 36: the test that decides the error dialog
NoLayers(ls) == Len(ls) = 0

----------------------------------------------------------------------------
(* importAerialWare, lines 109-121 *)

\* line 120 as "except ImportError"
ExceptCatchesImportError(exc) == exc = "ImportError"

\* line 120: "except Exception" catches every exception class met here
ExceptCatches(exc) ==
    exc \in {"FileNotFoundError", "SyntaxError", "ImportError",
             "AttributeError"}

\* importAerialWare returning True after the except clause as well
ImportAerialWareTrue(p, sm) ==
    LET exc == LoadOutcome(p)
        registered == IF exc = "AttributeError" THEN sm
                      ELSE IF exc = "none" THEN "loaded" ELSE "partial"
    IN  [ret |-> TRUE, raised |-> FALSE, sysModules |-> registered]

\* importAerialWare with line 118 as sys.modules.setdefault("AerialWare", ..)
ImportAerialWareSetDefault(p, sm) ==
    LET exc == LoadOutcome(p)
        registered == IF exc = "AttributeError" \/ sm # "absent" THEN sm
                      ELSE IF exc = "none" THEN "loaded" ELSE "partial"
    IN  [ret |-> exc = "none",
         raised |-> exc # "none" /\ ~ExceptCatches(exc),
         sysModules |-> registered]

\* the call importAerialWare(p) with sys.modules["AerialWare"] = sm:
\* the module is registered (line 118) before it is executed (line 119)
ImportAerialWare(p, sm) ==
    LET exc == LoadOutcome(p)
        registered == IF exc = "AttributeError" THEN sm
                      ELSE IF exc = "none" THEN "loaded" ELSE "partial"
    IN  [ret |-> exc = "none",
         raised |-> exc # "none" /\ ~ExceptCatches(exc),
         sysModules |-> registered]

----------------------------------------------------------------------------
(* the memory file, lines 83-105 *)

\* line 83 opening the file for appending
OpenModeAppend == "a"

\* line 83: the mode AerialWarePath.txt is opened in
OpenMode == "w"

\* open(name, mode): the file afterwards; opening for reading needs the file
OpenRaises(f, mode) == mode = "r" /\ ~f.exists
OpenFile(f, mode) ==
    CASE mode = "w" -> FileWith(<< >>)
      [] mode = "a" -> IF f.exists THEN f ELSE FileWith(<< >>)
      [] OTHER      -> f

\* readline() on a handle opened in this mode raises io.UnsupportedOperation
\* unless the mode allows reading
ReadRaises(mode) == mode \notin {"r"}

\* line 104: file.write(path)
FileWrite(f, p) == FileWith(f.text \o <<p>>)

----------------------------------------------------------------------------
(* makeLayer, lines 132-192 *)

\* lines 138-139, 144-145: QgsPoint(q) with addMValue(height)
MPoint(q, height) == [xy |-> q, m |-> height]

\* lines 143-146: the loop over the lines from index i on
RECURSIVE AppendSecondPoints(_, _, _, _)
AppendSecondPoints(lines, i, points, height) ==
    IF i > Len(lines) THEN points
    ELSE AppendSecondPoints(lines, i + 1,
                            Append(points, MPoint(lines[i][2], height)), height)

\* lines 137-146 without the first point of line 138
PolylinePointsNoFirst(lines, height) ==
    AppendSecondPoints(lines, 1, << >>, height)

\* lines 137-146: the point list of a non-empty path
PolylinePoints(lines, height) ==
    AppendSecondPoints(lines, 1, <<MPoint(lines[1][1], height)>>, height)

\* lines 153-160: the names of the six QgsField attributes
AttrNames ==
    <<"max_area_to_capture_height", "max_area_to_capture_width",
      "meters_in_pixel_ratio", "resolution_height", "resolution_width",
      "camera_focal_length">>

\* lines 169-176: the values given to them
AttrValues ==
    <<ToolMeta.areaH, ToolMeta.areaW, ToolMeta.ratio, ToolMeta.resH,
      ToolMeta.resW, ToolMeta.focal>>

\* lines 150-192 without line 186, provider.addFeatures
CallOrderNoAddFeatures ==
    <<"setGeometry", "setFields", "setAttribute", "QgsVectorLayer",
      "startEditing", "addAttributes", "updateFields", "commitChanges",
      "updateExtents", "addMapLayer">>

\* lines 150-192 with the commit of line 188 before line 186
CallOrderCommitFirst ==
    <<"setGeometry", "setFields", "setAttribute", "QgsVectorLayer",
      "startEditing", "addAttributes", "updateFields", "commitChanges",
      "addFeatures", "updateExtents", "addMapLayer">>

\* lines 150-192: the calls on host objects, in the order of the code
CallOrder ==
    <<"setGeometry", "setFields", "setAttribute", "QgsVectorLayer",
      "startEditing", "addAttributes", "updateFields", "addFeatures",
      "commitChanges", "updateExtents", "addMapLayer">>

NoFeature == [geometry |-> << >>, fields |-> << >>, attributes |-> << >>]
NoLayer ==
    [name |-> "", created |-> FALSE, editing |-> FALSE, fields |-> << >>,
     features |-> << >>, committed |-> FALSE, extents |-> FALSE]

\* the state makeLayer starts from
MakeStart(points) ==
    [points |-> points, feature |-> NoFeature, layer |-> NoLayer,
     registered |-> FALSE, log |-> << >>, exc |-> "none"]

\* the effect of one host call of makeLayer
HostCall(c, st, name) ==
    CASE c = "setGeometry"    -> [st EXCEPT !.feature.geometry = st.points]
      [] c = "setFields"      -> [st EXCEPT !.feature.fields = AttrNames]
      [] c = "setAttribute"   -> [st EXCEPT !.feature.attributes = AttrValues]
      [] c = "QgsVectorLayer" ->
            [st EXCEPT !.layer = [NoLayer EXCEPT !.name = name,
                                                 !.created = TRUE]]
      [] c = "startEditing"   -> [st EXCEPT !.layer.editing = TRUE]
      [] c = "addAttributes"  -> [st EXCEPT !.layer.fields = AttrNames]
      [] c = "updateFields"   -> st
      [] c = "addFeatures"    ->
            [st EXCEPT !.layer.features = Append(@, st.feature)]
      [] c = "commitChanges"  ->
            [st EXCEPT !.layer.committed = TRUE, !.layer.editing = FALSE]
      [] c = "updateExtents"  -> [st EXCEPT !.layer.extents = TRUE]
      [] c = "addMapLayer"    -> [st EXCEPT !.registered = TRUE]

\* the calls from index i on; the call with index failAt raises
RECURSIVE RunCalls(_, _, _, _)
RunCalls(i, st, name, failAt) ==
    IF i > Len(CallOrder) THEN st
    ELSE IF i = failAt THEN [st EXCEPT !.exc = "HostError"]
    ELSE RunCalls(i + 1,
                  [HostCall(CallOrder[i], st, name)
                      EXCEPT !.log = Append(st.log, <<name, CallOrder[i]>>)],
                  name, failAt)

\* makeLayer with an empty path skipped over instead of read on line 138
MakeLayerEmptyOk(lines, name, height, bound, failAt) ==
    IF ~bound THEN [MakeStart(<< >>) EXCEPT !.exc = "NameError"]
    ELSE IF Len(lines) = 0 THEN RunCalls(1, MakeStart(<< >>), name, failAt)
    ELSE RunCalls(1, MakeStart(PolylinePoints(lines, height)), name, failAt)

\* makeLayer(lines, name): line 138 needs the name QgsPoint, which the file
\* does not import, and lines[0]
MakeLayer(lines, name, height, bound, failAt) ==
    IF ~bound THEN [MakeStart(<< >>) EXCEPT !.exc = "NameError"]
    ELSE IF Len(lines) = 0 THEN [MakeStart(<< >>) EXCEPT !.exc = "IndexError"]
    ELSE RunCalls(1, MakeStart(PolylinePoints(lines, height)), name, failAt)

\* the host call that fails for the layer of this name (0: none)
FailAt(name) == IF hostFail.layer = name THEN hostFail.call ELSE 0

HostFails ==
    {NoHostFail} \cup [layer : {"Meridians", "Horizontals"},
                       call : 1..Len(CallOrder)]

----------------------------------------------------------------------------
(* Initial states *)

\* AerialWarePath.txt before the run: absent, empty, or holding one path
MemFiles ==
    {NoFile, FileWith(<< >>), FileWith(<<"okdir">>), FileWith(<<"nofile">>)}

InitProgram ==
    /\ pc = "init"
    /\ excRaised = "none"
    /\ layersList = << >>
    /\ layersDict = << >>
    /\ msgBoxes = 0
    /\ onStartRet = "notcalled"
    /\ memAttempt = "none"
    /\ memFile = memFile0
    /\ fileState = "unopened"
    /\ sysModules = "absent"
    /\ prompts = 0
    /\ firstAnswer = "none"
    /\ path = ""
    /\ lastImport = NoImport
    /\ selShown = 0
    /\ offered = << >>
    /\ accepted = "none"
    /\ aw = "none"
    /\ awImage = 0
    /\ doneConnected = FALSE
    /\ selfDel = "no"
    /\ awDel = "no"
    /\ onEndRuns = 0
    /\ hostLog = << >>
    /\ projectLayers = << >>

\* any project, any memory file, either outcome of the default import;
\* the tool's paths are among SmallResults and the host calls succeed
Init ==
    /\ layers \in LayerSeqs(MaxLayers)
    /\ defaultOk \in BOOLEAN
    /\ coreNames \in BOOLEAN
    /\ toolResult \in SmallResults
    /\ hostFail = NoHostFail
    /\ memFile0 \in MemFiles
    /\ InitProgram

----------------------------------------------------------------------------
(* __init__, lines 30-68, and onStart, lines 70-107 *)

\* lines 31-50: the error dialog when there is no layer, else the parse
Construct ==
    /\ pc = "init"
    /\ IF NoLayers(layers)
       THEN /\ msgBoxes' = msgBoxes + 1
            /\ pc' = "returned"
            /\ UNCHANGED <<layersList, layersDict>>
       ELSE /\ layersList' = ParseLayers(layers, 1, << >>, << >>)[1]
            /\ layersDict' = ParseLayers(layers, 1, << >>, << >>)[2]
            /\ pc' = "onStart"
            /\ UNCHANGED msgBoxes
    /\ UNCHANGED <<envVars, excRaised, loadVars, selVars, toolVars, selfDel,
                   endVars>>

\* line 79 without its return
DefaultFallsThrough(ok) == FALSE

\* line 79: a successful default import ends onStart
DefaultReturns(ok) == ok

\* lines 53, 76-80: onStart is called and tries the default location
OnStartDefault ==
    /\ pc = "onStart"
    /\ IF DefaultReturns(defaultOk)
       THEN /\ onStartRet' = "True"
            /\ pc' = "select"
       ELSE /\ onStartRet' = "running"
            /\ pc' = "memfile"
    /\ sysModules' = IF defaultOk THEN "default" ELSE sysModules
    /\ UNCHANGED <<envVars, excRaised, initVars, memAttempt, memFile, fileState,
                   prompts, firstAnswer, path, lastImport, selVars, toolVars,
                   selfDel, endVars>>

\* lines 82-91: the memory file is opened and the path in it is tried
OnStartMemFile ==
    /\ pc = "memfile"
    /\ IF OpenRaises(memFile, OpenMode)
       THEN /\ pc' = "raised"
            /\ excRaised' = "FileNotFoundError"
            /\ UNCHANGED <<onStartRet, memAttempt, memFile, fileState,
                           sysModules, lastImport>>
       ELSE LET f == OpenFile(memFile, OpenMode)
                reads == ~ReadRaises(OpenMode)
                line == FirstLine(f.text)
                r == ImportAerialWare(line, sysModules)
                imported == reads /\ r.ret
            IN  /\ memFile' = f
                /\ memAttempt' = IF imported THEN "ok" ELSE "failed"
                /\ sysModules' = IF reads THEN r.sysModules ELSE sysModules
                /\ lastImport' =
                      IF reads
                      THEN [called |-> TRUE, path |-> line, ret |-> r.ret,
                            raised |-> r.raised]
                      ELSE lastImport
                /\ fileState' = IF imported THEN "closed" ELSE "open"
                /\ onStartRet' = IF imported THEN "True" ELSE onStartRet
                /\ pc' = IF imported THEN "select" ELSE "prompt"
                /\ UNCHANGED excRaised
    /\ UNCHANGED <<envVars, initVars, prompts, firstAnswer, path, selVars,
                   toolVars, selfDel, endVars>>

\* lines 96-99, 53-55: the user cancels the path prompt
PromptCancel ==
    /\ pc = "prompt"
    /\ prompts' = prompts + 1
    /\ firstAnswer' = IF prompts = 0 THEN "cancel" ELSE firstAnswer
    /\ fileState' = "closed"
    /\ onStartRet' = "False"
    /\ selfDel' = "pending"
    /\ pc' = "returned"
    /\ UNCHANGED <<envVars, excRaised, initVars, memAttempt, memFile,
                   sysModules, path, lastImport, selVars, toolVars, endVars>>

\* lines 96-107: the user answers the path prompt with p
PromptPath(p) ==
    /\ pc = "prompt"
    /\ prompts < MaxPrompts
    /\ LET r == ImportAerialWare(p, sysModules)
       IN  /\ prompts' = prompts + 1
           /\ firstAnswer' = IF prompts = 0 THEN p ELSE firstAnswer
           /\ path' = p
           /\ sysModules' = r.sysModules
           /\ lastImport' = [called |-> TRUE, path |-> p, ret |-> r.ret,
                             raised |-> r.raised]
           /\ IF r.raised
              THEN /\ pc' = "raised"
                   /\ excRaised' = LoadOutcome(p)
                   /\ UNCHANGED <<memFile, fileState, onStartRet>>
              ELSE IF ~r.ret
              THEN UNCHANGED <<pc, excRaised, memFile, fileState, onStartRet>>
              ELSE /\ memFile' = FileWrite(memFile, p)
                   /\ fileState' = "closed"
                   /\ onStartRet' = "True"
                   /\ pc' = "select"
                   /\ UNCHANGED excRaised
    /\ UNCHANGED <<envVars, initVars, memAttempt, selVars, toolVars, selfDel,
                   endVars>>

\* lines 58-68 without the test of line 59: a cancelled getItem returns the
\* current item, the first of the list
SelectCancelIgnored ==
    /\ pc = "select"
    /\ selShown' = selShown + 1
    /\ offered' = layersList
    /\ IF layersList = << >>
       THEN /\ pc' = "raised"
            /\ excRaised' = "KeyError"
            /\ UNCHANGED <<aw, awImage, doneConnected>>
       ELSE /\ aw' = "shown"
            /\ awImage' = layersDict[layersList[1]]
            /\ doneConnected' = TRUE
            /\ pc' = "eventloop"
            /\ UNCHANGED excRaised
    /\ UNCHANGED <<envVars, initVars, loadVars, accepted, awDel, selfDel,
                   endVars>>

\* lines 58-59: the user cancels the layer selection
SelectCancel ==
    /\ pc = "select"
    /\ selShown' = selShown + 1
    /\ offered' = layersList
    /\ pc' = "returned"
    /\ UNCHANGED <<envVars, excRaised, initVars, loadVars, accepted, toolVars,
                   selfDel, endVars>>

\* lines 58-68: the user accepts the text k (the combo box of getItem is
\* editable, so k need not be in the list)
SelectAccept(k) ==
    /\ pc = "select"
    /\ selShown' = selShown + 1
    /\ offered' = layersList
    /\ accepted' = k
    /\ IF k \notin DOMAIN layersDict
       THEN /\ pc' = "raised"
            /\ excRaised' = "KeyError"
            /\ UNCHANGED <<aw, awImage, doneConnected>>
       ELSE /\ aw' = "shown"
            /\ awImage' = layersDict[k]
            /\ doneConnected' = TRUE
            /\ pc' = "eventloop"
            /\ UNCHANGED excRaised
    /\ UNCHANGED <<envVars, initVars, loadVars, awDel, selfDel, endVars>>

----------------------------------------------------------------------------
(* onEnd, lines 123-130, run by the done signal of the tool *)

\* line 126 undone when line 127 raises
RolledBack(pl, layer) == pl

\* lines 126-127: the project after line 127 raises: the layer registered by
\* line 126 is still there
KeptOnFailure(pl, layer) == Append(pl, layer)

OnEnd ==
    /\ pc = "eventloop"
    /\ doneConnected
    /\ aw = "shown"
    /\ onEndRuns < MaxDone
    /\ onEndRuns' = onEndRuns + 1
    /\ LET m == MakeLayer(toolResult.meridians, "Meridians", toolResult.height,
                          coreNames, FailAt("Meridians"))
           h == MakeLayer(toolResult.horizontals, "Horizontals",
                          toolResult.height, coreNames, FailAt("Horizontals"))
       IN  IF m.exc # "none"
           THEN /\ hostLog' = hostLog \o m.log
                /\ excRaised' = m.exc
                /\ UNCHANGED <<projectLayers, aw, awDel, selfDel>>
           ELSE IF h.exc # "none"
           THEN /\ hostLog' = hostLog \o m.log \o h.log
                /\ projectLayers' = KeptOnFailure(projectLayers, m.layer)
                /\ excRaised' = h.exc
                /\ UNCHANGED <<aw, awDel, selfDel>>
           ELSE /\ hostLog' = hostLog \o m.log \o h.log
                /\ projectLayers' = projectLayers \o <<m.layer, h.layer>>
                /\ aw' = "closed"
                /\ awDel' = "pending"
                /\ selfDel' = "pending"
                /\ UNCHANGED excRaised
    /\ UNCHANGED <<envVars, pc, initVars, loadVars, selVars, awImage,
                   doneConnected>>

\* lines 54, 129-130: the event loop deletes what deleteLater() marked; a
\* deleted sender or receiver ends the connection of line 68
DeferredDelete ==
    /\ selfDel = "pending" \/ awDel = "pending"
    /\ selfDel' = IF selfDel = "pending" THEN "deleted" ELSE selfDel
    /\ awDel' = IF awDel = "pending" THEN "deleted" ELSE awDel
    /\ aw' = IF awDel = "pending" THEN "deleted" ELSE aw
    /\ doneConnected' = FALSE
    /\ UNCHANGED <<envVars, pc, excRaised, initVars, loadVars, selVars,
                   awImage, endVars>>

----------------------------------------------------------------------------
(* Specifications *)

Next ==
    \/ Construct
    \/ OnStartDefault
    \/ OnStartMemFile
    \/ PromptCancel
    \/ \E p \in Paths : PromptPath(p)
    \/ SelectCancel
    \/ \E k \in Names : SelectAccept(k)
    \/ OnEnd
    \/ DeferredDelete

Spec == Init /\ [][Next]_vars

\* the run in which the default import works and the project holds one
\* raster layer, with every tool result and every failing host call
InitMake ==
    /\ layers = <<[type |-> "RasterLayer", name |-> "a"]>>
    /\ defaultOk = TRUE
    /\ coreNames \in BOOLEAN
    /\ toolResult \in MakeResults
    /\ hostFail \in HostFails
    /\ memFile0 = NoFile
    /\ InitProgram

NextMake ==
    \/ Construct
    \/ OnStartDefault
    \/ SelectCancel
    \/ \E k \in Names : SelectAccept(k)
    \/ OnEnd
    \/ DeferredDelete

SpecMake == InitMake /\ [][NextMake]_vars

----------------------------------------------------------------------------
(* Properties *)

RasterIds == {i \in 1..Len(layers) : layers[i].type = "RasterLayer"}
IsRaster(l) == l.type = "RasterLayer"
\* the names of the raster layers, in the order of the project
RasterNameSeq ==
    LET rs == SelectSeq(layers, IsRaster)
    IN  [i \in 1..Len(rs) |-> rs[i].name]
\* the memory file holds, on its first line, a path that loads
MemLoads(f) == f.exists /\ f.text # << >> /\ Loads(FirstLine(f.text))
Range(q) == {q[i] : i \in 1..Len(q)}

\* C1: with no raster layer in the project, constructing the widget shows
\* exactly one error dialog and does nothing else: onStart is not run, the
\* memory file is not touched, no selection dialog, no tool, no layer.
C1_NoRasterOnlyErrorDialog ==
    (RasterIds = {} /\ pc # "init") =>
        /\ msgBoxes = 1
        /\ onStartRet = "notcalled"
        /\ fileState = "unopened"
        /\ memFile = memFile0
        /\ selShown = 0
        /\ aw = "none"
        /\ projectLayers = << >>

\* C2: when the default import fails and the memory file holds a path that
\* loads, onStart returns True and no path prompt is ever shown.
C2_MemoryPathNoPrompt ==
    (~defaultOk /\ MemLoads(memFile0)) =>
        /\ prompts = 0
        /\ onStartRet # "False"

\* C3: when the user cancels the path prompt, no tool widget is constructed,
\* no layer is added and the memory file is as it was before the run.
C3_CancelLeavesFile ==
    onStartRet = "False" =>
        /\ aw = "none"
        /\ projectLayers = << >>
        /\ memFile = memFile0

\* C4: when the default import fails, the memory file is absent or holds no
\* loading path, and the first prompt is answered with a path that loads,
\* onStart returns True and the memory file holds exactly that path.
C4_FirstPromptPathSaved ==
    (~defaultOk /\ ~MemLoads(memFile0) /\ firstAnswer \in Paths
        /\ Loads(firstAnswer)) =>
        /\ onStartRet = "True"
        /\ memFile = FileWith(<<firstAnswer>>)

C4_Witness ==
    /\ ~defaultOk
    /\ memFile0 = FileWith(<<"nofile">>)
    /\ firstAnswer = "okdir2"
    /\ onStartRet = "True"
    /\ memFile = FileWith(<<"okdir2">>)

\* the path a layer of this name was made from
LinesOf(name) ==
    IF name = "Meridians" THEN toolResult.meridians
    ELSE toolResult.horizontals

\* C5: the geometry of the feature made from a path of m segments has
\* exactly m+1 points, p1 of the first segment followed by p2 of every
\* segment in order, each with the flight height as its measure.
C5_GeometryPoints ==
    \A i \in 1..Len(projectLayers) :
        \A j \in 1..Len(projectLayers[i].features) :
            LET g == projectLayers[i].features[j].geometry
                lines == LinesOf(projectLayers[i].name)
            IN  /\ Len(g) = Len(lines) + 1
                /\ g[1].xy = lines[1][1]
                /\ \A n \in 1..Len(lines) : g[n + 1].xy = lines[n][2]
                /\ \A n \in 1..Len(g) : g[n].m = toolResult.height

C5_Witness ==
    /\ toolResult.meridians = << <<1, 0>>, <<0, 1>> >>
    /\ toolResult.height = 20
    /\ Len(projectLayers) >= 1
    /\ projectLayers[1].name = "Meridians"
    /\ projectLayers[1].features[1].geometry =
           <<MPoint(1, 20), MPoint(0, 20), MPoint(1, 20)>>

\* C6: the selection dialog is offered the names of the raster layers, one
\* per raster layer and none from a layer of another type, and when the user
\* accepts one of them the tool is given the preview of a raster layer
\* of that name.
C6_SelectionBindsLayer ==
    /\ selShown > 0 =>
          /\ offered = RasterNameSeq
          /\ Len(offered) = Cardinality(RasterIds)
    /\ (accepted # "none" /\ accepted \in Range(offered)) =>
          /\ aw # "none"
          /\ awImage \in RasterIds
          /\ layers[awImage].name = accepted
    /\ aw # "none" => (accepted \in Range(offered) /\ awImage \in RasterIds)

C6_Witness ==
    /\ Len(layers) = 2
    /\ layers[1].type = "VectorLayer"
    /\ layers[2] = [type |-> "RasterLayer", name |-> "b"]
    /\ offered = <<"b">>
    /\ accepted = "b"
    /\ aw = "shown"
    /\ awImage = 2

\* C7: importAerialWare never raises: a load that fails (missing file,
\* syntax error, unresolved dependency, unusable spec) returns False, a
\* load that succeeds returns True.
C7_ImportNeverRaises ==
    /\ lastImport.called =>
          /\ ~lastImport.raised
          /\ lastImport.ret = Loads(lastImport.path)
    /\ excRaised \notin {"FileNotFoundError", "SyntaxError", "ImportError",
                         "AttributeError"}

C7_Witness ==
    /\ lastImport.called
    /\ lastImport.path = "syntaxerr"
    /\ ~lastImport.ret
    /\ ~lastImport.raised
    /\ pc = "prompt"

\* C8: the layer selection dialog is never given an empty list of names.
C8_SelectionListNonEmpty == selShown > 0 => offered # << >>

\* C9: when the default import succeeds, onStart returns True without
\* touching the memory file and without a prompt; a path prompt is shown
\* only after the default attempt and the memory-file attempt have failed.
C9_StopsAtFirstSuccess ==
    /\ (defaultOk /\ onStartRet # "notcalled") =>
          /\ onStartRet = "True"
          /\ fileState = "unopened"
          /\ memFile = memFile0
          /\ memAttempt = "none"
          /\ ~lastImport.called
          /\ prompts = 0
    /\ (prompts > 0 \/ pc = "prompt") =>
          /\ ~defaultOk
          /\ memAttempt = "failed"

C9_Witness ==
    /\ defaultOk
    /\ onStartRet = "True"
    /\ memFile0 = FileWith(<<"okdir">>)
    /\ memFile = memFile0
    /\ pc = "select"

\* C10: when the user cancels the layer selection, __init__ returns at
\* once: the tool widget is never constructed or shown, done is never
\* connected and no layer is added.
C10_SelectCancelAborts ==
    (selShown > 0 /\ accepted = "none") =>
        /\ pc = "returned"
        /\ aw = "none"
        /\ awImage = 0
        /\ ~doneConnected
        /\ projectLayers = << >>
        /\ onEndRuns = 0

C10_Witness ==
    /\ selShown = 1
    /\ accepted = "none"
    /\ offered # << >>
    /\ onStartRet = "True"
    /\ pc = "returned"

\* the number of layers of this name added to the project
LayerCount(name) ==
    Cardinality({i \in 1..Len(projectLayers) : projectLayers[i].name = name})

\* C11: the completion callback is one-shot: however often the tool emits
\* done, onEnd adds at most one "Meridians" layer and at most one
\* "Horizontals" layer to the project in a run.
C11_OnEndOneShot ==
    /\ LayerCount("Meridians") <= 1
    /\ LayerCount("Horizontals") <= 1

\* C12: every layer registered with the project holds exactly one feature
\* when it is registered.
C12_OneFeaturePerLayer ==
    \A i \in 1..Len(projectLayers) : Len(projectLayers[i].features) = 1

C12_Witness ==
    /\ Len(projectLayers) = 2
    /\ projectLayers[1].name = "Meridians"
    /\ projectLayers[2].name = "Horizontals"
    /\ Len(projectLayers[2].features) = 1
    /\ aw = "closed"

\* every call b logged for a layer has a call a logged for that layer before
\* it, with no other b in between: each b is preceded by its own a
Precedes(a, b) ==
    \A i \in 1..Len(hostLog) :
        hostLog[i][2] = b =>
            \E j \in 1..(i - 1) :
                /\ hostLog[j] = <<hostLog[i][1], a>>
                /\ \A k \in (j + 1)..(i - 1) : hostLog[k][2] # b

\* C13: for each layer, the attribute schema is set on the feature and the
\* same six attributes are added to the provider before the feature is
\* added; the feature is added before the commit, the commit comes before
\* updateExtents and updateExtents before the layer is registered.
C13_HostCallOrder ==
    /\ Precedes("setFields", "addFeatures")
    /\ Precedes("addAttributes", "addFeatures")
    /\ Precedes("addFeatures", "commitChanges")
    /\ Precedes("commitChanges", "updateExtents")
    /\ Precedes("updateExtents", "addMapLayer")
    /\ \A i \in 1..Len(projectLayers) :
          /\ Len(projectLayers[i].fields) = 6
          /\ \A j \in 1..Len(projectLayers[i].features) :
                projectLayers[i].features[j].fields = projectLayers[i].fields
          /\ projectLayers[i].committed
          /\ projectLayers[i].extents
    /\ Cardinality({i \in 1..Len(hostLog) : hostLog[i][2] = "addMapLayer"})
          = Len(projectLayers)

C13_Witness ==
    /\ Len(projectLayers) = 2
    /\ Len(hostLog) = 2 * Len(CallOrder)
    /\ hostLog[Len(CallOrder)] = <<"Meridians", "addMapLayer">>
    /\ hostLog[2 * Len(CallOrder)] = <<"Horizontals", "addMapLayer">>

\* the stages in their order: loader after accessor, selection dialog only
\* after onStart returned True, tool only after a name was accepted, no
\* layer before the tool was shown and done ran onEnd
StageOrder ==
    /\ msgBoxes <= 1
    /\ selShown <= 1
    /\ onStartRet # "notcalled" => (pc # "init" /\ msgBoxes = 0)
    /\ selShown > 0 => onStartRet = "True"
    /\ aw # "none" => (selShown = 1 /\ accepted # "none")
    /\ onEndRuns > 0 => aw # "none"
    /\ projectLayers # << >> => onEndRuns > 0

\* C14: in every run each stage (accessor, loader, selection dialog,
\* adapter, converter) occurs at most once, and only in that order.
C14_StagesOnceInOrder ==
    /\ StageOrder
    /\ onEndRuns <= 1

\* C15: when a host call fails while onEnd builds the "Horizontals" layer,
\* the failure leaves onEnd uncaught, the "Meridians" layer registered
\* before stays in the project and the tool is neither closed nor disposed.
C15_NoRollback ==
    (/\ hostFail.layer = "Horizontals"
     /\ coreNames
     /\ toolResult.meridians # << >>
     /\ toolResult.horizontals # << >>
     /\ onEndRuns >= 1) =>
        /\ excRaised = "HostError"
        /\ Len(projectLayers) = onEndRuns
        /\ \A i \in 1..Len(projectLayers) :
              projectLayers[i].name = "Meridians"
        /\ aw = "shown"
        /\ awDel = "no"
        /\ selfDel = "no"

C15_Witness ==
    /\ hostFail = [layer |-> "Horizontals", call |-> 9]
    /\ onEndRuns = 1
    /\ excRaised = "HostError"
    /\ Len(projectLayers) = 1
    /\ projectLayers[1].name = "Meridians"
    /\ aw = "shown"

\* C18: with an empty "Meridians" path makeLayer fails on line 138 before
\* any layer is created: onEnd ends with no layer added, "Horizontals" not
\* attempted and the tool neither closed nor disposed.
C18_EmptyMeridians ==
    (toolResult.meridians = << >> /\ onEndRuns >= 1) =>
        /\ excRaised \in {"IndexError", "NameError"}
        /\ coreNames => excRaised = "IndexError"
        /\ projectLayers = << >>
        /\ hostLog = << >>
        /\ aw = "shown"
        /\ awDel = "no"
        /\ selfDel = "no"

C18_Witness ==
    /\ toolResult.meridians = << >>
    /\ toolResult.horizontals # << >>
    /\ coreNames
    /\ onEndRuns = 1
    /\ excRaised = "IndexError"
    /\ projectLayers = << >>
    /\ aw = "shown"

\* C16: once the prompt is reached, the loop ends only when a given path
\* loads (onStart returns True) or the user cancels (onStart returns False);
\* a given path that does not load leads to another prompt, and a cancel or
\* a loading path ends onStart in that very step.
C16_PromptLoop ==
    [][pc = "prompt" =>
          \/ /\ pc' = "prompt"
             /\ prompts' = prompts + 1
             /\ ~Loads(path')
             /\ onStartRet' = "running"
          \/ /\ pc' = "select"
             /\ prompts' = prompts + 1
             /\ Loads(path')
             /\ onStartRet' = "True"
          \/ /\ pc' = "returned"
             /\ prompts' = prompts + 1
             /\ path' = path
             /\ onStartRet' = "False"]_vars

C16_Witness ==
    /\ prompts = 2
    /\ firstAnswer = "nofile"
    /\ path = "okdir"
    /\ onStartRet = "True"
    /\ pc = "select"

\* C17: whenever onStart has returned True, sys.modules["AerialWare"] is a
\* module whose load completed, also after failed attempts that registered
\* a module whose execution failed; the tool widget is only ever
\* constructed from such a module.
C17_RegistryLoaded ==
    /\ onStartRet = "True" => sysModules \in {"default", "loaded"}
    /\ aw # "none" => sysModules \in {"default", "loaded"}
    /\ sysModules = "default" => defaultOk

C17_Witness ==
    /\ firstAnswer = "syntaxerr"
    /\ prompts = 2
    /\ onStartRet = "True"
    /\ sysModules = "loaded"
    /\ aw = "shown"

=============================================================================
